---------------------------- MODULE Spec2Model ----------------------------
(***************************************************************************)
(* Model of src/MSO4102B.py: the Scope client of a Tektronix MSO4102B.     *)
(*                                                                         *)
(* Text (commands, replies, dictionary values) is a sequence of one-       *)
(* character strings, so that rstrip/split/float/int are computed the way  *)
(* Python computes them.  Floating-point values are modelled by integers   *)
(* (numeric literals are integer literals), arithmetic is exact.           *)
(*                                                                         *)
(* A Scope method runs from pc = "idle" to pc = "idle"; in between pc is    *)
(* the source line of the next session call.  `sent` is the list of        *)
(* session calls the running (or last) method made, `ret` its outcome,     *)
(* `source` the data-source channel the instrument holds.                  *)
(***************************************************************************)
EXTENDS Integers, Sequences, FiniteSets, TLC

VARIABLES op, args, pc, sent, ret, source

vars == <<op, args, pc, sent, ret, source>>

(***************************** bounds **************************************)
\* longest raw trace handed to scale_data
MaxLen == 2
\* largest channel number a caller passes (two digits are reached)
MaxChannel == 10

(************************* Python text primitives **************************)
NL == "\n"
SP == " "

DigitChars == <<"0", "1", "2", "3", "4", "5", "6", "7", "8", "9">>

IsDigit(c) == \E d \in 1..10 : DigitChars[d] = c

DigitVal(c) == (CHOOSE d \in 1..10 : DigitChars[d] = c) - 1

\* str.rstrip('\n'): every trailing newline is removed
RECURSIVE rstrip(_)
rstrip(s) ==
    IF Len(s) > 0 /\ s[Len(s)] = NL THEN rstrip(SubSeq(s, 1, Len(s) - 1)) ELSE s

\* position of the first occurrence of sep in s, 0 when there is none
Find(s, sep) ==
    IF \E i \in 1..Len(s) : s[i] = sep
    THEN CHOOSE i \in 1..Len(s) : s[i] = sep /\ \A j \in 1..(i - 1) : s[j] # sep
    ELSE 0

\* str.split(sep): the pieces between the separators, empty pieces kept
RECURSIVE split(_, _)
split(s, sep) ==
    LET i == Find(s, sep)
    IN  IF i = 0 THEN <<s>>
        ELSE <<SubSeq(s, 1, i - 1)>> \o split(SubSeq(s, i + 1, Len(s)), sep)

\* str.split(sep, 1): at most one split, at the first separator
split1(s, sep) ==
    LET i == Find(s, sep)
    IN  IF i = 0 THEN <<s>>
        ELSE <<SubSeq(s, 1, i - 1), SubSeq(s, i + 1, Len(s))>>

\* seq[-1]
Last(s) == s[Len(s)]

RECURSIVE DigitsVal(_)
DigitsVal(s) ==
    IF Len(s) = 0 THEN 0
    ELSE 10 * DigitsVal(SubSeq(s, 1, Len(s) - 1)) + DigitVal(s[Len(s)])

AllDigits(s) == Len(s) > 0 /\ \A i \in 1..Len(s) : IsDigit(s[i])

\* float(text) lenient variant: text that is no literal reads as 0.0
float_lenient(text) ==
    IF Len(text) > 0 /\ text[1] = "-" /\ AllDigits(Tail(text))
    THEN [ok |-> TRUE, val |-> 0 - DigitsVal(Tail(text))]
    ELSE IF AllDigits(text) THEN [ok |-> TRUE, val |-> DigitsVal(text)]
    ELSE [ok |-> TRUE, val |-> 0]

\* float(text) on an (integer-valued) literal; ok = FALSE is ValueError
float(text) ==
    IF Len(text) > 0 /\ text[1] \in {"-", "+"} /\ AllDigits(Tail(text))
    THEN [ok |-> TRUE,
          val |-> IF text[1] = "-" THEN 0 - DigitsVal(Tail(text))
                  ELSE DigitsVal(Tail(text))]
    ELSE IF AllDigits(text) THEN [ok |-> TRUE, val |-> DigitsVal(text)]
    ELSE [ok |-> FALSE, val |-> 0]

(****************************** outcomes ***********************************)
NoRet == [kind |-> "none"]

\* exc: the Python exception class; key: the dictionary key the exception
\* carries ("" when it carries none); text: the text its message quotes
\* code: the VISA status of a session failure ("" for any other exception)
Raise(exc, key, text) ==
    [kind |-> "raise", exc |-> exc, key |-> key, text |-> text, code |-> ""]

\* what self.write / self.query raise when the session fails
VisaIOError(code) ==
    [kind |-> "raise", exc |-> "VisaIOError", key |-> "", text |-> <<>>, code |-> code]

\* a method that ends without a return statement
ReturnNone == [kind |-> "return", val |-> "None"]

Return(v) == [kind |-> "return", val |-> v]

(******************************* scale_data ********************************)
\* the keys scale_data reads, in the order of lines 112-116
ScalingKeys == <<"XZERO", "XINCR", "YZERO", "YMULT", "YOFF">>

\* float(scaling_dict[key]): KeyError for a missing key, ValueError for text
\* that is no float literal
Lookup(scaling_dict, key) ==
    IF key \notin DOMAIN scaling_dict THEN Raise("KeyError", key, <<>>)
    ELSE IF ~float(scaling_dict[key]).ok
         THEN Raise("ValueError", "", scaling_dict[key])
         ELSE [kind |-> "value", val |-> float(scaling_dict[key]).val]

\* variant: y_points computed without the raw-sample offset
y_point_no_offset(raw, y_offset, y_mult, y_zero) == raw * y_mult + y_zero

\* line 122, one element
y_point(raw, y_offset, y_mult, y_zero) == (raw - y_offset) * y_mult + y_zero

\* variant: one sample too few
x_len_short(curve) == IF Len(curve) = 0 THEN 0 ELSE Len(curve) - 1

\* line 118: len(curve)
x_len(curve) == Len(curve)

\* curve_read tells whether the function got as far as reading the curve
scale_data(scaling_dict, curve) ==
    LET bad == {i \in 1..5 : Lookup(scaling_dict, ScalingKeys[i]).kind = "raise"}
    IN  IF bad # {}
        THEN LET first == CHOOSE i \in bad : \A j \in bad : i <= j
                 e == Lookup(scaling_dict, ScalingKeys[first])
             IN  [kind |-> "raise", exc |-> e.exc, key |-> e.key, text |-> e.text,
                  code |-> "", curve_read |-> FALSE]
        ELSE LET x_zero   == Lookup(scaling_dict, "XZERO").val
                 x_incr   == Lookup(scaling_dict, "XINCR").val
                 y_zero   == Lookup(scaling_dict, "YZERO").val
                 y_mult   == Lookup(scaling_dict, "YMULT").val
                 y_offset == Lookup(scaling_dict, "YOFF").val
             IN  [kind |-> "return",
                  x_points |-> [i \in 1..x_len(curve) |-> x_zero + x_incr * (i - 1)],
                  y_points |-> [i \in 1..Len(curve) |->
                                   y_point(curve[i], y_offset, y_mult, y_zero)],
                  curve_read |-> TRUE]

(***************************** str.format **********************************)
RECURSIVE NatDigits(_)
NatDigits(n) ==
    IF n < 10 THEN <<DigitChars[n + 1]>>
    ELSE NatDigits(n \div 10) \o <<DigitChars[(n % 10) + 1]>>

\* '{:d}'.format(n)
FormatD(n) == IF n < 0 THEN <<"-">> \o NatDigits(0 - n) ELSE NatDigits(n)

Million == 1000 * 1000

\* n as six digits, zero-padded on the left
Pad6(n) ==
    LET d == NatDigits(n)
    IN  [i \in 1..(6 - Len(d)) |-> "0"] \o d

\* |num/den| in millionths, rounded half to even as '{:f}' rounds
Micros(num, den) ==
    LET a == IF num < 0 THEN 0 - num ELSE num
        q == (a * Million) \div den
        r == (a * Million) % den
    IN  IF 2 * r > den \/ (2 * r = den /\ q % 2 = 1) THEN q + 1 ELSE q

\* '{:f}'.format(num / den): sign, whole part, point, six decimals
FormatF(num, den) ==
    LET m == Micros(num, den)
    IN  (IF num < 0 THEN <<"-">> ELSE <<>>)
        \o NatDigits(m \div Million) \o <<".">> \o Pad6(m % Million)

\* a command text: the format string of the source and its formatted fields
Cmd(fmt, fields) == [fmt |-> fmt, fields |-> fields]

(************************ the commands of each method **********************)
\* variant: the level is sent in millivolts, as given
trigger_level_unscaled(threshold) == FormatF(threshold, 1)

\* line 55: threshold/1000. formatted with {1:f}
trigger_level(threshold) == FormatF(threshold, 1000)

\* lines 53-55
set_trigger_cmd(line, a) ==
    CASE line = "53" -> Cmd(":TRIG:A:EDGE:SOU CH{0:d}", <<FormatD(a.channel)>>)
      [] line = "54" -> Cmd(":TRIG:A:EDGE:SLOPE {0:s}", <<a.edge>>)
      [] line = "55" -> Cmd(":TRIG:A:LEVEL:CH{0:d} {1:f}",
                            <<FormatD(a.channel), trigger_level(a.threshold)>>)

\* variant: record length and scale commands exchanged
set_time_axis_cmd_swapped(line, a) ==
    CASE line = "149" -> Cmd(":HOR::DELAY:MODE {0:d}", <<FormatD(a.mode)>>)
      [] line = "150" -> Cmd(":HOR:POS {0:f}", <<FormatF(a.position, 1)>>)
      [] line = "151" -> Cmd(":HOR:SCA {0:f}", <<FormatF(a.scale_ns, 1000 * Million)>>)
      [] line = "152" -> Cmd(":HOR:RECO {0:f}", <<FormatF(a.readout_length, 1)>>)

\* lines 148-152; the scale is held in nanoseconds (scale = scale_ns / 1e9)
set_time_axis_cmd(line, a) ==
    CASE line = "149" -> Cmd(":HOR::DELAY:MODE {0:d}", <<FormatD(a.mode)>>)
      [] line = "150" -> Cmd(":HOR:POS {0:f}", <<FormatF(a.position, 1)>>)
      [] line = "151" -> Cmd(":HOR:RECO {0:f}", <<FormatF(a.readout_length, 1)>>)
      [] line = "152" -> Cmd(":HOR:SCA {0:f}", <<FormatF(a.scale_ns, 1000 * Million)>>)

\* line 73
set_source_channel_cmd(channel) == Cmd(":DATA:SOURCE {0:d}", <<FormatD(channel)>>)

\* the statement after each session call of a method ("idle": the method ends)
NextLine(line, a) ==
    CASE line = "53" -> "54"
      [] line = "54" -> "55"
      [] line = "55" -> "idle"
      [] line = "73" -> "idle"
      [] line = "149" -> "150"
      [] line = "150" -> "151"
      [] line = "151" -> "152"
      [] line = "152" -> IF a.verbose THEN "158" ELSE "idle"
      [] line = "158" -> "idle"

(****************************** the session ********************************)
\* the VISA statuses a failing write or query raises with
ErrorCodes == {"VI_ERROR_TMO", "VI_ERROR_CONN_LOST"}

Outcomes == {"ok"} \cup ErrorCodes

\* variant: a failed call is swallowed and the method goes on
after_call_swallow(outcome, next) == next

\* no method catches an exception: a call that raises ends the method
after_call(outcome, next) == IF outcome = "ok" THEN next ELSE "idle"

\* the data source the instrument holds after a write
InstrumentSource(cmd, outcome) ==
    IF outcome = "ok" /\ cmd.fmt = ":DATA:SOURCE {0:d}"
    THEN DigitsVal(cmd.fields[1]) ELSE source

\* self.write(cmd)
Write(cmd, outcome, next) ==
    /\ sent' = Append(sent, [kind |-> "write", cmd |-> cmd, outcome |-> outcome,
                             reply |-> <<>>])
    /\ pc' = after_call(outcome, next)
    /\ ret' = IF outcome # "ok" THEN VisaIOError(outcome)
              ELSE IF next = "idle" THEN ReturnNone ELSE ret
    /\ source' = InstrumentSource(cmd, outcome)
    /\ UNCHANGED <<op, args>>

\* self.query(cmd), followed by what the method computes from the reply
Query(cmd, outcome, reply, next, result) ==
    /\ sent' = Append(sent, [kind |-> "query", cmd |-> cmd, outcome |-> outcome,
                             reply |-> IF outcome = "ok" THEN reply ELSE <<>>])
    /\ pc' = after_call(outcome, next)
    /\ ret' = IF outcome # "ok" THEN VisaIOError(outcome)
              ELSE IF next = "idle" THEN result ELSE ret
    /\ UNCHANGED <<op, args, source>>

\* a method is entered
Enter(name, a, line) ==
    /\ pc = "idle"
    /\ op' = name
    /\ args' = a
    /\ pc' = line
    /\ sent' = <<>>
    /\ ret' = NoRet
    /\ UNCHANGED source

(******************************* set_trigger *******************************)
Channels == 1..MaxChannel

\* trigger thresholds in millivolts
Thresholds == {-50, 0, 500}

Edges == {"FALL", "RISE"}

set_trigger(channel, threshold, edge) ==
    Enter("set_trigger",
          [channel |-> channel, threshold |-> threshold, edge |-> edge], "53")

set_trigger_write ==
    /\ pc \in {"53", "54", "55"}
    /\ \E outcome \in Outcomes :
          Write(set_trigger_cmd(pc, args), outcome, NextLine(pc, args))

(***************************** set_source_channel **************************)
set_source_channel(channel) ==
    Enter("set_source_channel", [channel |-> channel], "73")

set_source_channel_write ==
    /\ pc = "73"
    /\ \E outcome \in Outcomes :
          Write(set_source_channel_cmd(args.channel), outcome, NextLine(pc, args))

(******************************* set_time_axis *****************************)
set_time_axis(scale_ns, position, readout_length, mode, verbose) ==
    Enter("set_time_axis",
          [scale_ns |-> scale_ns, position |-> position,
           readout_length |-> readout_length, mode |-> mode, verbose |-> verbose],
          "149")

set_time_axis_write ==
    /\ pc \in {"149", "150", "151", "152"}
    /\ \E outcome \in Outcomes :
          Write(set_time_axis_cmd(pc, args), outcome, NextLine(pc, args))

\* the instrument's answer to :HOR?, only printed
HorReply == <<"1", ";", "5", "0", NL>>

\* line 158, verbose only
set_time_axis_query ==
    /\ pc = "158"
    /\ \E outcome \in Outcomes :
          Query(Cmd(":HOR?", <<>>), outcome, HorReply, NextLine(pc, args), ReturnNone)

(***************************** get_source_channel ***************************)
DataSourceHeader == <<":", "D", "A", "T", "A", ":", "S", "O", "U", "R", "C", "E">>

\* the instrument's answer to :DATA:SOURCE?, with or without the header
SourceReply(header) ==
    (IF header THEN DataSourceHeader \o <<SP>> ELSE <<>>)
    \o <<"C", "H">> \o NatDigits(source) \o <<NL>>

\* line 62: int(channel[-1][-1])
channel_of_token(token) ==
    IF Len(token) = 0 THEN Raise("IndexError", "", <<>>)
    ELSE IF ~IsDigit(Last(token)) THEN Raise("ValueError", "", <<Last(token)>>)
    ELSE Return(DigitVal(Last(token)))

\* variant: the first token of the reply is taken
last_token_first(reply) == split(rstrip(reply), SP)[1]

\* lines 61, 97, 100: reply.rstrip('\n').split(" ")[-1]
last_token(reply) == Last(split(rstrip(reply), SP))

get_source_channel ==
    Enter("get_source_channel", [verbose |-> FALSE], "61")

\* lines 61-67
get_source_channel_query ==
    /\ pc = "61"
    /\ \E outcome \in Outcomes, header \in BOOLEAN :
          Query(Cmd(":DATA:SOURCE?", <<>>), outcome, SourceReply(header), "idle",
                channel_of_token(last_token(SourceReply(header))))

(***************************** read_scaling_config *************************)
\* line 80 calls get_source_channel as a bare name; the module defines no
\* such global (it is a method of Scope), so the call raises NameError
\* before any query is sent
read_scaling_config ==
    /\ pc = "idle"
    /\ op' = "read_scaling_config"
    /\ args' = [verbose |-> FALSE]
    /\ pc' = "idle"
    /\ sent' = <<>>
    /\ ret' = Raise("NameError", "", <<>>)
    /\ UNCHANGED source

(******************************** read_config ******************************)
\* answers to :WFMO? the instrument may give
PreambleReplies == {
    <<"N", "R", "_", "P", "T", SP, "1", "0", "0", "0", ";", "X", "U", "N",
      "I", "T", SP, "s", ";", "X", "Z", "E", "R", "O", SP, "0", ".", "0",
      ";", "X", "I", "N", "C", "R", SP, "1", "e", "-", "0", "9">>,
    <<"N", "R", "_", "P", "T", SP, "1", "0", "0", "0", ";", "X", "U", "N",
      "I", "T", SP, "s", NL>>,
    <<"W", "F", "I", "D", SP, "C", "h", "1", ",", SP, "D", "C", SP, "c",
      "o", "u", "p", "l", "i", "n", "g", ";", "N", "R", "_", "P", "T", SP,
      "1", "0", "0", "0", NL>>,
    <<"N", "R", "_", "P", "T", SP, "1", "0", "0", "0", ";", "X", "U", "N",
      "I", "T">>,
    <<"B", "Y", "T", "_", "N", "R", SP, SP, "1", SP, ";", "N", "R", "_",
      "P", "T", SP, "5", "0", "0">> }

\* lines 40-46 on the reply; the dictionary is a local and the method has
\* no return statement, so the caller gets None
read_config_parse(config) ==
    LET segs == split(config, ";")
        bad  == {i \in DOMAIN segs : Len(split1(segs[i], SP)) < 2}
        key(i) == split1(segs[i], SP)[1]
        lastOf(k) == CHOOSE i \in DOMAIN segs :
                        key(i) = k /\ \A j \in DOMAIN segs : key(j) = k => j <= i
    IN  IF bad # {} THEN Raise("ValueError", "", <<>>)
        ELSE [kind |-> "return", val |-> "None",
              config_dict |-> [k \in {key(i) : i \in DOMAIN segs} |->
                                  split1(segs[lastOf(k)], SP)[2]]]

read_config ==
    Enter("read_config", [verbose |-> FALSE], "39")

\* lines 39-46
read_config_query ==
    /\ pc = "39"
    /\ \E outcome \in Outcomes, config \in PreambleReplies :
          Query(Cmd(":WFMO?", <<>>), outcome, config, "idle", read_config_parse(config))

(********************************* read_trace ******************************)
\* answers to CURVE? the instrument may give
CurveReplies == {
    <<":", "C", "U", "R", "V", "E", SP, "1", ",", "2", ",", "3", ",", "4",
      NL>>,
    <<":", "C", "U", "R", "V", "E", SP, NL>>,
    <<":", "C", "U", "R", "V", "E", SP, "1", ",", "x", ",", "3", NL>>,
    <<"-", "5", ",", "1", "0", NL>>,
    <<":", "C", "U", "R", "V", "E", SP, "7">>,
    <<NL>> }

\* line 131: np.array(reply.rstrip('\n').split(' ', 1)[-1].split(','), dtype=float)
read_trace_parse(reply) ==
    LET tokens == split(Last(split1(rstrip(reply), SP)), ",")
        bad    == {i \in DOMAIN tokens : ~float(tokens[i]).ok}
    IN  IF bad # {}
        THEN Raise("ValueError", "", tokens[CHOOSE i \in bad : \A j \in bad : i <= j])
        ELSE Return([i \in DOMAIN tokens |-> float(tokens[i]).val])

read_trace ==
    Enter("read_trace", [verbose |-> FALSE], "131")

\* lines 131-133
read_trace_query ==
    /\ pc = "131"
    /\ \E outcome \in Outcomes, reply \in CurveReplies :
          Query(Cmd("CURVE?", <<>>), outcome, reply, "idle", read_trace_parse(reply))

(***************************** scale_data, called **************************)
\* the values a scaling dictionary holds for a key
Texts == {<<"3">>, <<"-", "1">>, <<"x">>}

ScalingKeySet == {ScalingKeys[i] : i \in 1..5}

ScalingDicts == UNION {[K -> Texts] : K \in SUBSET ScalingKeySet}

\* raw samples
RawValues == {0, 5}

Curves == UNION {[1..n -> RawValues] : n \in 0..MaxLen}

\* scale_data entered with its two arguments bound
ScaleInit ==
    /\ op = "scale_data"
    /\ args \in [scaling_dict : ScalingDicts, curve : Curves]
    /\ pc = "112"
    /\ sent = <<>>
    /\ ret = NoRet
    /\ source = 1

\* lines 112-124: the function runs to its return or to the exception
ScaleData ==
    /\ pc = "112"
    /\ pc' = "idle"
    /\ ret' = scale_data(args.scaling_dict, args.curve)
    /\ UNCHANGED <<op, args, sent, source>>

NextScale == ScaleData

\* scale_data applied to every scaling dictionary and raw trace of the bounds
SpecScale == ScaleInit /\ [][NextScale]_vars

(***************************** the state machine ***************************)
ScalesNs == {100, 2000}

Positions == {0, 60}

ReadoutLengths == {1000, 2000}

Modes == {0, 1}

Init ==
    /\ op = "none"
    /\ args = [verbose |-> FALSE]
    /\ pc = "idle"
    /\ sent = <<>>
    /\ ret = NoRet
    /\ source = 1

Next ==
    \/ \E c \in Channels, t \in Thresholds, e \in Edges : set_trigger(c, t, e)
    \/ set_trigger_write
    \/ \E c \in Channels : set_source_channel(c)
    \/ set_source_channel_write
    \/ \E s \in ScalesNs, p \in Positions, r \in ReadoutLengths, m \in Modes,
          v \in BOOLEAN : set_time_axis(s, p, r, m, v)
    \/ set_time_axis_write
    \/ set_time_axis_query
    \/ get_source_channel
    \/ get_source_channel_query
    \/ read_scaling_config
    \/ read_config
    \/ read_config_query
    \/ read_trace
    \/ read_trace_query

Spec == Init /\ [][Next]_vars

(***************************************************************************)
(*                          Properties of scale_data                       *)
(***************************************************************************)
\* the number a calibration text of the bounds denotes
NumericTexts == {<<"3">>, <<"-", "1">>}

Denotes(text) == IF text = <<"3">> THEN 3 ELSE 0 - 1

\* all five calibration keys present and numeric
ValidCalibration(d) ==
    \A k \in ScalingKeySet : k \in DOMAIN d /\ d[k] \in NumericTexts

ScaleDone == op = "scale_data" /\ pc = "idle"

\* C1: for a raw trace of length N and a calibration mapping with numeric
\* XZERO, XINCR, YZERO, YMULT, YOFF, scale_data returns
\* time[i] = XZERO + XINCR * i and
\* amplitude[i] = (raw[i] - YOFF) * YMULT + YZERO for every i in [0, N);
\* the time sequence is a function of XZERO, XINCR and i alone.
C1_ScaleFormula ==
    (ScaleDone /\ ValidCalibration(args.scaling_dict)) =>
        LET d == args.scaling_dict
            raw == args.curve
        IN  /\ ret.kind = "return"
            /\ \A i \in 0..(Len(raw) - 1) :
                  /\ (i + 1) \in DOMAIN ret.x_points
                  /\ ret.x_points[i + 1] = Denotes(d["XZERO"]) + Denotes(d["XINCR"]) * i
                  /\ (i + 1) \in DOMAIN ret.y_points
                  /\ ret.y_points[i + 1] =
                        (raw[i + 1] - Denotes(d["YOFF"])) * Denotes(d["YMULT"])
                        + Denotes(d["YZERO"])

\* a trace of two samples scaled with XZERO 3, XINCR -1, YZERO 3, YMULT 3, YOFF -1
C1_Witness ==
    /\ ScaleDone
    /\ ret.kind = "return"
    /\ args.curve = <<0, 5>>
    /\ args.scaling_dict["XINCR"] = <<"-", "1">>
    /\ args.scaling_dict["YOFF"] = <<"-", "1">>
    /\ ret.x_points = <<3, 2>>
    /\ ret.y_points = <<6, 21>>

\* C2: for every N >= 0 and valid calibration mapping, scale_data returns a
\* time sequence and an amplitude sequence of length exactly N; for N = 0 it
\* returns two empty sequences and no error.
C2_ScaleLength ==
    (ScaleDone /\ ValidCalibration(args.scaling_dict)) =>
        /\ ret.kind = "return"
        /\ DOMAIN ret.x_points = 1..Len(args.curve)
        /\ DOMAIN ret.y_points = 1..Len(args.curve)
        /\ (Len(args.curve) = 0 => ret.x_points = <<>> /\ ret.y_points = <<>>)

\* the empty trace scaled
C2_Witness ==
    /\ ScaleDone
    /\ ValidCalibration(args.scaling_dict)
    /\ args.curve = <<>>
    /\ ret.kind = "return"
    /\ ret.x_points = <<>>
    /\ ret.y_points = <<>>

\* the calibration keys that are missing or hold non-numeric text
Offending(d) == {k \in ScalingKeySet : k \notin DOMAIN d \/ d[k] \notin NumericTexts}

\* the first offending key in the order scale_data reads the keys
FirstOffending(d) ==
    ScalingKeys[CHOOSE i \in 1..5 :
                   /\ ScalingKeys[i] \in Offending(d)
                   /\ \A j \in 1..(i - 1) : ScalingKeys[j] \notin Offending(d)]

\* C3 as stated: with a calibration key missing or non-numeric, scale_data
\* fails with an error naming the missing or invalid key, before reading the
\* raw trace; with all five keys present and numeric it never fails.
C3_ErrorNamesKey ==
    ScaleDone =>
        IF Offending(args.scaling_dict) = {}
        THEN ret.kind = "return"
        ELSE /\ ret.kind = "raise"
             /\ ret.key \in Offending(args.scaling_dict)
             /\ ~ret.curve_read

\* C3 amended: the failure is that of the first offending key in the order
\* XZERO, XINCR, YZERO, YMULT, YOFF: a KeyError carrying the key when it is
\* missing, a ValueError quoting the non-numeric text (and not the key) when
\* it is present; either way before the raw trace is read.  With all five
\* keys present and numeric scale_data never fails.
C3_ErrorOfFirstKey ==
    ScaleDone =>
        LET d == args.scaling_dict
        IN  IF Offending(d) = {}
            THEN ret.kind = "return"
            ELSE /\ ret.kind = "raise"
                 /\ ~ret.curve_read
                 /\ IF FirstOffending(d) \notin DOMAIN d
                    THEN ret.exc = "KeyError" /\ ret.key = FirstOffending(d)
                    ELSE /\ ret.exc = "ValueError"
                         /\ ret.key = ""
                         /\ ret.text = d[FirstOffending(d)]

\* YMULT holds non-numeric text, the other four keys are numeric, the trace
\* has two samples
C3_Witness ==
    /\ ScaleDone
    /\ Offending(args.scaling_dict) = {"YMULT"}
    /\ "YMULT" \in DOMAIN args.scaling_dict
    /\ Len(args.curve) = 2
    /\ ret.kind = "raise"
    /\ ret.exc = "ValueError"
    /\ ret.text = <<"x">>
    /\ ~ret.curve_read

(***************************************************************************)
(*                     Properties of the query methods                     *)
(***************************************************************************)
Done(name) == op = name /\ pc = "idle"

\* every session call of the method was answered
AllAnswered == \A i \in DOMAIN sent : sent[i].outcome = "ok"

\* the keys read_scaling_config is to deliver
ScalingConfigKeys ==
    {"NR_PT", "XUNIT", "XZERO", "XINCR", "YUNIT", "YZERO", "YMULT", "YOFF",
     "channel", "record_length"}

\* C4: against a session that answers every query, read_scaling_config
\* returns a flat mapping holding NR_PT, XUNIT, XZERO, XINCR, YUNIT, YZERO,
\* YMULT, YOFF, channel and record_length (each queried key mapped to the last
\* token of the reply to its query), so the five keys scale_data needs are
\* present in the result.
C4_ScalingConfigReturned ==
    (Done("read_scaling_config") /\ AllAnswered) =>
        /\ ret.kind = "return"
        /\ ScalingConfigKeys \subseteq DOMAIN ret.val
        /\ ScalingKeySet \subseteq DOMAIN ret.val

IsSpace(c) == c \in {SP, NL}

\* text without its leading and trailing whitespace
RECURSIVE Trimmed(_)
Trimmed(t) ==
    IF Len(t) > 0 /\ IsSpace(t[1]) THEN Trimmed(Tail(t))
    ELSE IF Len(t) > 0 /\ IsSpace(t[Len(t)]) THEN Trimmed(SubSeq(t, 1, Len(t) - 1))
    ELSE t

\* the segments of a preamble reply, its trailing whitespace stripped first
Segments(reply) == split(Trimmed(reply), ";")

WellFormedPreamble(reply) ==
    \A i \in DOMAIN Segments(reply) : Find(Segments(reply)[i], SP) > 1

\* key -> trimmed text after the first space, one entry per segment
ExpectedConfig(reply) ==
    LET segs == Segments(reply)
        key(i) == SubSeq(segs[i], 1, Find(segs[i], SP) - 1)
        val(i) == Trimmed(SubSeq(segs[i], Find(segs[i], SP) + 1, Len(segs[i])))
    IN  [k \in {key(i) : i \in DOMAIN segs} |->
            val(CHOOSE i \in DOMAIN segs : key(i) = k)]

\* C5: given a preamble reply "KEY1 VAL1;KEY2 VAL2;..." (a trailing newline
\* allowed), read_config produces a mapping with one entry per segment, each
\* key mapped to the trimmed text after the first space of its segment; the
\* trailing newline is stripped before segmentation.
C5_ConfigMapping ==
    (Done("read_config") /\ Len(sent) = 1 /\ AllAnswered
        /\ WellFormedPreamble(sent[1].reply)) =>
        /\ ret.kind = "return"
        /\ ret.val # "None"
        /\ ret.config_dict = ExpectedConfig(sent[1].reply)

\* the data block of a CURVE? reply: what follows the first space, the
\* trailing newline dropped
DataBlock(reply) ==
    LET t == rstrip(reply)
    IN  SubSeq(t, Find(t, SP) + 1, Len(t))

IsNumber(token) ==
    \/ AllDigits(token)
    \/ Len(token) > 1 /\ token[1] = "-" /\ AllDigits(Tail(token))

NumberOf(token) ==
    IF token[1] = "-" THEN 0 - DigitsVal(Tail(token)) ELSE DigitsVal(token)

\* C6: read_trace discards the preamble up to the first space of the reply
\* and parses the comma-separated remainder into a numeric sequence, one
\* element per token, in order; when the data block is empty it returns an
\* empty sequence and does not fail.
C6_TraceParsed ==
    (Done("read_trace") /\ Len(sent) = 1 /\ AllAnswered
        /\ Find(rstrip(sent[1].reply), SP) > 0) =>
        LET data   == DataBlock(sent[1].reply)
            tokens == split(data, ",")
        IN  IF data = <<>>
            THEN ret.kind = "return" /\ ret.val = <<>>
            ELSE (\A i \in DOMAIN tokens : IsNumber(tokens[i])) =>
                    /\ ret.kind = "return"
                    /\ ret.val = [i \in DOMAIN tokens |-> NumberOf(tokens[i])]

(***************************************************************************)
(*                    Properties of the session traffic                    *)
(***************************************************************************)
\* C7: a write or query failure raised by the session ends the operation
\* with that same error: the failed command is the last one sent (never
\* re-sent, nothing after it) and the outcome is the error, not a result.
C7_FailurePropagates ==
    \A i \in DOMAIN sent :
        sent[i].outcome # "ok" =>
            /\ i = Len(sent)
            /\ pc = "idle"
            /\ ret = VisaIOError(sent[i].outcome)

\* set_time_axis whose second write timed out
C7_Witness ==
    /\ Done("set_time_axis")
    /\ Len(sent) = 2
    /\ sent[1].outcome = "ok"
    /\ sent[2].outcome = "VI_ERROR_TMO"
    /\ ret.kind = "raise"
    /\ ret.code = "VI_ERROR_TMO"

\* the value, in millionths, of a text "[-]digits.dddddd"
FixedMicros(t) ==
    LET neg   == t[1] = "-"
        body  == IF neg THEN Tail(t) ELSE t
        dot   == Find(body, ".")
        whole == SubSeq(body, 1, dot - 1)
        frac  == SubSeq(body, dot + 1, Len(body))
        m     == DigitsVal(whole) * Million + DigitsVal(frac)
    IN  IF neg THEN 0 - m ELSE m

IsFixed(t) ==
    LET body == IF Len(t) > 0 /\ t[1] = "-" THEN Tail(t) ELSE t
        dot  == Find(body, ".")
    IN  /\ dot > 1
        /\ Len(body) = dot + 6
        /\ AllDigits(SubSeq(body, 1, dot - 1))
        /\ AllDigits(SubSeq(body, dot + 1, Len(body)))

Writes(n) == \A i \in 1..n : i \in DOMAIN sent /\ sent[i].kind = "write"

\* C8: set_trigger(channel, threshold, edge) sends exactly three writes and no
\* query, in the order: edge-trigger source = channel, slope = edge, level of
\* that same channel = threshold / 1000 volts.
C8_TriggerCommands ==
    /\ op = "set_trigger" =>
          /\ Len(sent) <= 3
          /\ Writes(Len(sent))
          /\ Len(sent) >= 1 => sent[1].cmd.fmt = ":TRIG:A:EDGE:SOU CH{0:d}"
          /\ Len(sent) >= 2 => sent[2].cmd.fmt = ":TRIG:A:EDGE:SLOPE {0:s}"
          /\ Len(sent) >= 3 => sent[3].cmd.fmt = ":TRIG:A:LEVEL:CH{0:d} {1:f}"
    /\ (Done("set_trigger") /\ ret.kind = "return") =>
          /\ Len(sent) = 3
          /\ Len(sent[1].cmd.fields) = 1
          /\ AllDigits(sent[1].cmd.fields[1])
          /\ DigitsVal(sent[1].cmd.fields[1]) = args.channel
          /\ sent[2].cmd.fields = <<args.edge>>
          /\ Len(sent[3].cmd.fields) = 2
          /\ sent[3].cmd.fields[1] = sent[1].cmd.fields[1]
          /\ IsFixed(sent[3].cmd.fields[2])
          /\ FixedMicros(sent[3].cmd.fields[2]) = args.threshold * 1000

\* a falling-edge trigger at -50 mV on channel 10
C8_Witness ==
    /\ Done("set_trigger")
    /\ ret.kind = "return"
    /\ args.channel = 10
    /\ args.threshold = 0 - 50
    /\ sent[1].cmd.fields = <<<<"1", "0">>>>
    /\ sent[2].cmd.fields = <<"FALL">>
    /\ sent[3].cmd.fields = <<<<"1", "0">>, <<"-", "0", ".", "0", "5", "0", "0", "0", "0">>>>

\* m millionths of a second is ns nanoseconds rounded to six decimals
NearestMicro(m, ns) ==
    LET diff == m * 1000 - ns
    IN  2 * (IF diff < 0 THEN 0 - diff ELSE diff) <= 1000

\* the commands of set_time_axis, in the order the claim gives
TimeAxisFormats ==
    <<":HOR::DELAY:MODE {0:d}", ":HOR:POS {0:f}", ":HOR:RECO {0:f}", ":HOR:SCA {0:f}">>

\* C9: set_time_axis sends exactly four writes, in the order delay mode,
\* readout position, record length, time-per-division scale, each with the
\* one argument of its parameter (as '{:d}' or, to six decimals, '{:f}'
\* writes it); with verbose false no query, with verbose true exactly one
\* horizontal-status query, after the four writes.
C9_TimeAxisCommands ==
    /\ op = "set_time_axis" =>
          /\ Len(sent) <= (IF args.verbose THEN 5 ELSE 4)
          /\ \A i \in DOMAIN sent :
                IF i <= 4
                THEN /\ sent[i].kind = "write"
                     /\ sent[i].cmd.fmt = TimeAxisFormats[i]
                     /\ Len(sent[i].cmd.fields) = 1
                ELSE sent[i].kind = "query" /\ sent[i].cmd = Cmd(":HOR?", <<>>)
          /\ Len(sent) >= 1 =>
                /\ AllDigits(sent[1].cmd.fields[1])
                /\ DigitsVal(sent[1].cmd.fields[1]) = args.mode
          /\ Len(sent) >= 2 =>
                /\ IsFixed(sent[2].cmd.fields[1])
                /\ FixedMicros(sent[2].cmd.fields[1]) = args.position * Million
          /\ Len(sent) >= 3 =>
                /\ IsFixed(sent[3].cmd.fields[1])
                /\ FixedMicros(sent[3].cmd.fields[1]) = args.readout_length * Million
          /\ Len(sent) >= 4 =>
                /\ IsFixed(sent[4].cmd.fields[1])
                /\ NearestMicro(FixedMicros(sent[4].cmd.fields[1]), args.scale_ns)
    /\ (Done("set_time_axis") /\ ret.kind = "return") =>
          Len(sent) = (IF args.verbose THEN 5 ELSE 4)

\* a verbose call: four writes, then the one :HOR? query
C9_Witness ==
    /\ Done("set_time_axis")
    /\ ret.kind = "return"
    /\ args.verbose
    /\ args.scale_ns = 2000
    /\ Len(sent) = 5
    /\ Writes(4)
    /\ sent[4].cmd.fields = <<<<"0", ".", "0", "0", "0", "0", "0", "2">>>>
    /\ sent[5].kind = "query"

\* C10: for a single-digit channel c in 1..9, after set_source_channel(c) has
\* written the data-source command the instrument holds c, and
\* get_source_channel, against an instrument reporting that source, sends
\* exactly one data-source query and no write and returns the integer c.
C10_SourceRoundTrip ==
    /\ (Done("set_source_channel") /\ ret.kind = "return") =>
          /\ Len(sent) = 1
          /\ sent[1].kind = "write"
          /\ sent[1].cmd.fmt = ":DATA:SOURCE {0:d}"
          /\ source = args.channel
    /\ (Done("get_source_channel") /\ source \in 1..9) =>
          /\ Len(sent) = 1
          /\ sent[1].kind = "query"
          /\ sent[1].cmd = Cmd(":DATA:SOURCE?", <<>>)
          /\ sent[1].outcome = "ok" => ret.kind = "return" /\ ret.val = source

\* channel 7 selected and read back from a reply that carries the header
C10_Witness ==
    /\ Done("get_source_channel")
    /\ source = 7
    /\ sent[1].outcome = "ok"
    /\ sent[1].reply = DataSourceHeader \o <<SP, "C", "H", "7", NL>>
    /\ ret.kind = "return"
    /\ ret.val = 7

=============================================================================
